---- MODULE Spec2Model ----
(***************************************************************************)
(* A model of brutus/ebnf.py: the REBNF grammar compiler                   *)
(* (make_parser_node, EBNFParser.__init__) and the CST matcher             *)
(* (EBNFParser.parse, match_rule, match, match_terminal, match_nonterminal,*)
(* match_optional, match_one_or_more, match_repeating, match_alternate,    *)
(* match_sequence).                                                        *)
(*                                                                         *)
(* The tokenizer module (brutus/tokenizer.py) is a collaborator: a grammar *)
(* text is given here as its list of definitions, each body already cut    *)
(* into meta-tokens, and the matcher is driven through parse(tokens) with  *)
(* lists of target tokens.                                                 *)
(***************************************************************************)
EXTENDS Integers, Sequences, FiniteSets, TLC

VARIABLES
    groupcount,   \* the module-level Counter of ebnf.py (group names)
    parser,       \* the EBNFParser object last under construction, or NoParser
    grammar,      \* index in Grammars of the text it was constructed from (0: none)
    compiles,     \* number of EBNFParser(...) constructions so far
    compile_err,  \* the exception the last construction raised, or NoErr
    phase,        \* "start" | "ready" | "parsed"
    input,        \* the token list handed to the last parse
    result        \* what the last parse returned or raised, with its call log

vars == <<groupcount, parser, grammar, compiles, compile_err, phase, input, result>>

----------------------------------------------------------------------------
(* Bounds of the model *)

\* longest token list handed to parse
MaxLen == 3
\* number of EBNFParser constructions in one run
MaxCompiles == 2
\* deepest value of the matcher's depth argument i before the interpreter's
\* recursion limit is taken to be hit (RecursionError)
MaxDepth == 12

----------------------------------------------------------------------------
(* Symbols, tokens, nodes *)

\* the None of Python
None == [none |-> TRUE]

\* no exception
NoErr == [type |-> "", msg |-> ""]

Exc(type, msg) == [type |-> type, msg |-> msg]

\* Token(symbol, lexeme, start, end); symbols are compared by name, end is
\* never read
Token(symbol, lexeme, start) == [symbol |-> symbol, lexeme |-> lexeme, start |-> start]

\* EBNFToken(SEQUENCE, name, 0, 0) and the tokens EBNFTokenizer emits
EBNFToken(symbol, lexeme) == Token(symbol, lexeme, 0)

\* EBNFNonTerminalSymbol instances
NonTerminalSymbols == {"REPEATING", "SEQUENCE", "OPTIONAL", "ATLEASTONCE", "ALTERNATING"}

StartSymbols == {"STARTGROUP", "STARTREPEAT", "STARTOPTIONAL", "STARTATL"}

EndSymbols == {"ENDGROUP", "ENDREPEAT", "ENDOPTIONAL", "ENDATL"}

SuffixSymbols == {"REP", "OPT", "ATL"}

SEQ_MAP(s) ==
    CASE s = "STARTGROUP" -> "SEQUENCE"
      [] s = "STARTREPEAT" -> "REPEATING"
      [] s = "STARTOPTIONAL" -> "OPTIONAL"
      [] s = "STARTATL" -> "ATLEASTONCE"

SUFFIX_MAP(s) ==
    CASE s = "REP" -> "REPEATING"
      [] s = "OPT" -> "OPTIONAL"
      [] s = "ATL" -> "ATLEASTONCE"

groupings(s) ==
    CASE s = "STARTGROUP" -> "ENDGROUP"
      [] s = "STARTREPEAT" -> "ENDREPEAT"
      [] s = "STARTOPTIONAL" -> "ENDOPTIONAL"
      [] s = "STARTATL" -> "ENDATL"

\* EBNFNode(token): a token and a list of children
EBNFNode(token) == [token |-> token, children |-> <<>>]

\* EBNFNode.add
add(this, thing) == [this EXCEPT !.children = Append(@, thing)]

alternate(n) == n.token.symbol = "ALTERNATING"

optional(n) == n.token.symbol = "OPTIONAL"

repeating(n) == n.token.symbol = "REPEATING"

oneormore(n) == n.token.symbol = "ATLEASTONCE"

\* Token.is_terminal: the symbol's is_terminal
is_terminal(token) == token.symbol \notin NonTerminalSymbols

\* CSTNode(token)
CSTNode(token) == [token |-> token, children |-> <<>>]

----------------------------------------------------------------------------
(* Meta-tokens of grammar bodies, as EBNFTokenizer emits them *)

Lit(x) == EBNFToken("LITERAL", x)

Rule(x) == EBNFToken("RULE", x)

Term(x) == EBNFToken("TERM", x)

SG == EBNFToken("STARTGROUP", "(")

EG == EBNFToken("ENDGROUP", ")")

SR == EBNFToken("STARTREPEAT", "{")

ER == EBNFToken("ENDREPEAT", "}")

SO == EBNFToken("STARTOPTIONAL", "[")

EO == EBNFToken("ENDOPTIONAL", "]")

SA == EBNFToken("STARTATL", "<")

EA == EBNFToken("ENDATL", ">")

Or == EBNFToken("OR", "|")

\* the suffix tokens; the lexer list of EBNFTokenizer has no entry that
\* produces them, they are taken as the meta-syntax describes them
Rep == EBNFToken("REP", "*")

Opt == EBNFToken("OPT", "?")

Atl == EBNFToken("ATL", "+")

\* one definition `key := val;` of a grammar text
Def(key, val) == [key |-> key, val |-> val]

----------------------------------------------------------------------------
(* The grammar texts the model compiles, and the tokens fed to each *)

\* an input token before it is given its offset
Tk(symbol, lexeme) == [symbol |-> symbol, lexeme |-> lexeme]

La == Tk("LITERAL", "a")

Lb == Tk("LITERAL", "b")

Lc == Tk("LITERAL", "c")

Lx == Tk("LITERAL", "x")

Grammars == <<
    \* 1: r := "a" ["b"] "c";
    [text |-> <<Def("r", <<Lit("a"), SO, Lit("b"), EO, Lit("c")>>)>>,
     alphabet |-> {La, Lb, Lc}],
    \* 2: r := "a" {"b"};
    [text |-> <<Def("r", <<Lit("a"), SR, Lit("b"), ER>>)>>,
     alphabet |-> {La, Lb, Lc}],
    \* 3: expr := term {("+"|"-") term}; term := INTEGER | "(" expr ")"; INTEGER := [0-9]+;
    [text |-> <<Def("expr", <<Rule("term"), SR, SG, Lit("+"), Or, Lit("-"), EG, Rule("term"), ER>>),
                Def("term", <<Term("INTEGER"), Or, Lit("("), Rule("expr"), Lit(")")>>),
                Def("INTEGER", "[0-9]+")>>,
     alphabet |-> {Tk("INTEGER", "2"), Tk("LITERAL", "+"), Tk("LITERAL", ")")}],
    \* 4: r := "a" | "a" "b";
    [text |-> <<Def("r", <<Lit("a"), Or, Lit("a"), Lit("b")>>)>>,
     alphabet |-> {La, Lb}],
    \* 5: r := "a" "b" | "a" "c";
    [text |-> <<Def("r", <<Lit("a"), Lit("b"), Or, Lit("a"), Lit("c")>>)>>,
     alphabet |-> {La, Lb, Lc}],
    \* 6: as := "a" {("b"|"c")};
    [text |-> <<Def("as", <<Lit("a"), SR, SG, Lit("b"), Or, Lit("c"), EG, ER>>)>>,
     alphabet |-> {La, Lb, Lc}],
    \* 7: r := <"a"> "b";
    [text |-> <<Def("r", <<SA, Lit("a"), EA, Lit("b")>>)>>,
     alphabet |-> {La, Lb}],
    \* 8: r := s "x"; s := {"b" "c"};
    [text |-> <<Def("r", <<Rule("s"), Lit("x")>>),
                Def("s", <<SR, Lit("b"), Lit("c"), ER>>)>>,
     alphabet |-> {Lb, Lc, Lx}],
    \* 9: r := s "c"; s := "a" "b";
    [text |-> <<Def("r", <<Rule("s"), Lit("c")>>),
                Def("s", <<Lit("a"), Lit("b")>>)>>,
     alphabet |-> {La, Lb, Lc}],
    \* 10: r := "x" <s>; s := "a";
    [text |-> <<Def("r", <<Lit("x"), SA, Rule("s"), EA>>),
                Def("s", <<Lit("a")>>)>>,
     alphabet |-> {La, Lb, Lx}],
    \* 11: r := r "a" | "b";
    [text |-> <<Def("r", <<Rule("r"), Lit("a"), Or, Lit("b")>>)>>,
     alphabet |-> {La, Lb}],
    \* 12: list := item {item}; item := "a" | "b" "a";
    [text |-> <<Def("list", <<Rule("item"), SR, Rule("item"), ER>>),
                Def("item", <<Lit("a"), Or, Lit("b"), Lit("a")>>)>>,
     alphabet |-> {La, Lb}],
    \* 13: stmt := VAR "=" INT; VAR := [a-z]+; INT := [0-9]+;
    [text |-> <<Def("stmt", <<Term("VAR"), Lit("="), Term("INT")>>),
                Def("VAR", "[a-z]+"),
                Def("INT", "[0-9]+")>>,
     alphabet |-> {Tk("VAR", "v"), Tk("LITERAL", "="), Tk("INT", "1")}],
    \* 14: r := {"a"];
    [text |-> <<Def("r", <<SR, Lit("a"), EO>>)>>,
     alphabet |-> {La}],
    \* 15: r := "a" );
    [text |-> <<Def("r", <<Lit("a"), EG>>)>>,
     alphabet |-> {La}],
    \* 16: r := <"a">;
    [text |-> <<Def("r", <<SA, Lit("a"), EA>>)>>,
     alphabet |-> {La, Lb}],
    \* 17: r := "a" ("b")*;
    [text |-> <<Def("r", <<Lit("a"), SG, Lit("b"), EG, Rep>>)>>,
     alphabet |-> {La, Lb, Lc}],
    \* 18: r := "a" ("b")? "c";
    [text |-> <<Def("r", <<Lit("a"), SG, Lit("b"), EG, Opt, Lit("c")>>)>>,
     alphabet |-> {La, Lb, Lc}],
    \* 19: r := ("a")+ "b";
    [text |-> <<Def("r", <<SG, Lit("a"), EG, Atl, Lit("b")>>)>>,
     alphabet |-> {La, Lb}],
    \* 20: r := {"a"}*;
    [text |-> <<Def("r", <<SR, Lit("a"), ER, Rep>>)>>,
     alphabet |-> {La}],
    \* 21: r := "a" ["b"]+;
    [text |-> <<Def("r", <<Lit("a"), SO, Lit("b"), EO, Atl>>)>>,
     alphabet |-> {La, Lb}],
    \* 22: r := "a"; s := "b"; r := "b";
    [text |-> <<Def("r", <<Lit("a")>>),
                Def("s", <<Lit("b")>>),
                Def("r", <<Lit("b")>>)>>,
     alphabet |-> {La, Lb}],
    \* 23: r := INT; INT := [0-9]+; INT := [1-9]+;
    [text |-> <<Def("r", <<Term("INT")>>),
                Def("INT", "[0-9]+"),
                Def("INT", "[1-9]+")>>,
     alphabet |-> {Tk("INT", "1")}],
    \* 24: r := "a"; LITERAL := x;
    [text |-> <<Def("r", <<Lit("a")>>),
                Def("LITERAL", "x")>>,
     alphabet |-> {La}],
    \* 25: r := {"a"};
    [text |-> <<Def("r", <<SR, Lit("a"), ER>>)>>,
     alphabet |-> {La, Lb}],
    \* 26: r := ["a"];
    [text |-> <<Def("r", <<SO, Lit("a"), EO>>)>>,
     alphabet |-> {La, Lb}],
    \* 27: INT := [0-9]+; s := INT; r := s "x";
    [text |-> <<Def("INT", "[0-9]+"),
                Def("s", <<Term("INT")>>),
                Def("r", <<Rule("s"), Lit("x")>>)>>,
     alphabet |-> {Tk("INT", "1"), Lx}],
    \* 28: r := <"a">*;
    [text |-> <<Def("r", <<SA, Lit("a"), EA, Rep>>)>>,
     alphabet |-> {La, Lb}],
    \* 29: r := "a" <"b">?;
    [text |-> <<Def("r", <<Lit("a"), SA, Lit("b"), EA, Opt>>)>>,
     alphabet |-> {La, Lb}],
    \* 30: r := "a" {"b";
    [text |-> <<Def("r", <<Lit("a"), SR, Lit("b")>>)>>,
     alphabet |-> {La, Lb}],
    \* 31: r := ("a" ["b"; s := "c" (;
    [text |-> <<Def("r", <<SG, Lit("a"), SO, Lit("b")>>),
                Def("s", <<Lit("c"), SG>>)>>,
     alphabet |-> {La, Lb}]
>>

\* the lower-case names (str.islower) and upper-case names (str.isupper) that
\* occur as keys of the texts
LowerKeys == {"r", "s", "as", "expr", "term", "list", "item", "stmt"}

UpperKeys == {"INTEGER", "VAR", "INT", "LITERAL"}

islower(key) == key \in LowerKeys

isupper(key) == key \in UpperKeys

----------------------------------------------------------------------------
(* make_parser_node *)

\* "%s-%d" % (key, n)
GroupName(key, n) == key \o "-" \o ToString(n)

\* name.split('-')[0], for the names make_parser_node sees: a rule key, or
\* a group name made from one
SplitDash(name, gc) ==
    IF name \in LowerKeys THEN name
    ELSE CHOOSE key \in LowerKeys : \E n \in 1..gc[key] : name = GroupName(key, n)

\* what make_parser_node hands back: the exception raised (or NoErr), the
\* node, the tokens left, and the module-level groupcount as it leaves it
MpnResult(err, node, tokens, gc) == [err |-> err, node |-> node, tokens |-> tokens, gc |-> gc]

RECURSIVE make_parser_node(_, _, _, _)
RECURSIVE mpn_loop(_, _, _, _, _)

\* a make_parser_node that takes no closer for a bracket that quantifies
used_brackets_never(first) == FALSE

\* used_brackets = first.symbol in [ENDREPEAT, ENDOPTION]
used_brackets(first) == first.symbol \in {"ENDREPEAT", "ENDOPTIONAL"}

\* the `while tokens:` loop of make_parser_node, `this` being the node under
\* construction
mpn_loop(name, this, tokens, endtoken, gc) ==
    IF tokens = <<>> THEN MpnResult(NoErr, this, tokens, gc)
    ELSE
    LET first == Head(tokens) IN
    IF first.symbol \in StartSymbols THEN
        LET key == SplitDash(name, gc)
            gc1 == [gc EXCEPT ![key] = @ + 1]
            r == make_parser_node(GroupName(key, gc1[key]), Tail(tokens),
                                  groupings(first.symbol), gc1)
        IN  IF r.err # NoErr THEN r
            ELSE mpn_loop(name,
                          IF r.node # None
                          THEN add(this, [r.node EXCEPT !.token.symbol = SEQ_MAP(first.symbol)])
                          ELSE this,
                          r.tokens, endtoken, r.gc)
    ELSE IF first.symbol \in EndSymbols THEN
        IF endtoken # first.symbol THEN
            \* the message is built from endtoken.name: None has no name
            IF endtoken = "None"
            THEN MpnResult(Exc("AttributeError", "NoneType has no attribute name"), None, tokens, gc)
            ELSE MpnResult(Exc("SyntaxError", "Expected closer"), None, tokens, gc)
        ELSE
        IF Len(tokens) > 1 /\ used_brackets(first) /\ tokens[2].symbol \in SuffixSymbols
        THEN MpnResult(Exc("SyntaxError", "Illegal mix of brackets and suffixes"), None, tokens, gc)
        ELSE IF Len(tokens) > 1 /\ tokens[2].symbol \in SuffixSymbols
        THEN MpnResult(NoErr, [this EXCEPT !.token.symbol = SUFFIX_MAP(tokens[2].symbol)],
                       Tail(Tail(tokens)), gc)
        ELSE MpnResult(NoErr, this, Tail(tokens), gc)
    ELSE IF first.symbol = "OR" THEN
        mpn_loop(name, add([this EXCEPT !.token.symbol = "ALTERNATING"], EBNFNode(first)),
                 Tail(tokens), endtoken, gc)
    ELSE
        mpn_loop(name, add(this, EBNFNode(first)), Tail(tokens), endtoken, gc)

\* a make_parser_node that makes its node before it looks at the tokens
no_tokens_node(name) == EBNFNode(EBNFToken("SEQUENCE", name))

\* if not tokens: return None, []
no_tokens(name) == None

make_parser_node(name, tokens, endtoken, gc) ==
    IF tokens = <<>> THEN MpnResult(NoErr, no_tokens(name), <<>>, gc)
    ELSE mpn_loop(name, EBNFNode(EBNFToken("SEQUENCE", name)), tokens, endtoken, gc)

----------------------------------------------------------------------------
(* EBNFParser.__init__ *)

\* no EBNFParser object
NoParser == [none |-> TRUE]

\* the attributes of a fresh EBNFParser before the definitions are read:
\* rules is the OrderedDict as its list of (key, parser node) items, the
\* tokenizer is its registry of symbol names and its list of lexers
NewParser ==
    [symbol_table |-> {},
     start_rule |-> "None",
     collapse_tree |-> TRUE,
     rules |-> <<>>,
     tokenizer |-> [symbols |-> {"LITERAL"},
                    lexers |-> <<[pattern |-> "\\s+", name |-> "None"],
                                 [pattern |-> "\"[^\"]+\"", name |-> "LITERAL"]>>]]

\* key in self.symbol_table
InSymbolTable(self, key) == \E e \in self.symbol_table : e.name = key

\* self.rules.get(rule)
RulesGet(self, rule) ==
    IF \E k \in 1..Len(self.rules) : self.rules[k].key = rule
    THEN self.rules[CHOOSE k \in 1..Len(self.rules) : self.rules[k].key = rule].node
    ELSE None

\* how __init__ ends: the exception raised (or NoErr), the object under
\* construction as __init__ leaves it, and the module-level groupcount
InitResult(err, self, gc) == [err |-> err, self |-> self, gc |-> gc]

\* a constructor that takes the rule inserted last
last_key(rules) == rules[Len(rules)].key

\* next(iter(self.rules.keys())): the key inserted first
first_key(rules) == rules[1].key

RECURSIVE init_loop(_, _, _)

\* the loop `for key, val in data:` and what follows it
init_loop(data, self, gc) ==
    IF data = <<>> THEN
        IF self.rules = <<>>
        THEN InitResult(Exc("StopIteration", ""), self, gc)
        ELSE InitResult(NoErr, [self EXCEPT !.start_rule = first_key(self.rules)], gc)
    ELSE
    LET key == Head(data).key
        val == Head(data).val
    IN
    IF InSymbolTable(self, key)
    THEN InitResult(Exc("SyntaxError", "rule already exists"), self, gc)
    ELSE IF islower(key) THEN
        LET r == make_parser_node(key, val, "None", gc) IN
        IF r.err # NoErr THEN InitResult(r.err, self, r.gc)
        ELSE IF r.tokens # <<>>
        THEN InitResult(Exc("SyntaxError", "rule did not process correctly"), self, r.gc)
        ELSE init_loop(Tail(data),
                       [self EXCEPT !.rules = Append(@, [key |-> key, node |-> r.node]),
                                    !.symbol_table = @ \cup {[name |-> key, is_terminal |-> FALSE]}],
                       r.gc)
    ELSE IF isupper(key) THEN
        IF key \in self.tokenizer.symbols
        THEN InitResult(Exc("ValueError", "Redefining terminal symbol"), self, gc)
        ELSE init_loop(Tail(data),
                       [self EXCEPT !.tokenizer.symbols = @ \cup {key},
                                    !.tokenizer.lexers = Append(@, [pattern |-> val, name |-> key]),
                                    !.symbol_table = @ \cup {[name |-> key, is_terminal |-> TRUE]}],
                       gc)
    ELSE init_loop(Tail(data), self, gc)

\* EBNFParser(text), the text given as its definitions
EBNFParser_init(data, gc) == init_loop(data, NewParser, gc)

----------------------------------------------------------------------------
(* The matcher.  Every match operation hands back (ok, node, tokens); here  *)
(* it is a record that also says which exception was raised instead (err), *)
(* and carries the log of the calls made, one event per call, in the order *)
(* in which the calls ended.                                               *)

\* a normal return of match_rule, match, match_terminal, match_nonterminal,
\* match_optional, match_one_or_more, match_repeating, match_alternate
Ret(ok, node, tokens, log) ==
    [ok |-> ok, node |-> node, found |-> <<>>, tokens |-> tokens, err |-> NoErr, log |-> log]

\* a normal return of match_sequence: (ok, found, tokens)
SeqRet(ok, found, tokens, log) ==
    [ok |-> ok, node |-> None, found |-> found, tokens |-> tokens, err |-> NoErr, log |-> log]

\* an exception leaving the call
Raise(err, log) ==
    [ok |-> FALSE, node |-> None, found |-> <<>>, tokens |-> <<>>, err |-> err, log |-> log]

\* the matcher never comes back: a loop whose every pass is the same call
\* with the same arguments
Hang == Exc("NonTermination", "loop repeats with the same tokens")

\* the CST children a result carries
Kids(r) == IF r.node # None THEN r.node.children ELSE r.found

\* one inner call as its caller saw it: which child, alternative or
\* iteration (idx), on which parser node, from which tokens, with what result
Step(idx, sym, name, tin, r) ==
    [idx |-> idx, sym |-> sym, name |-> name, tin |-> tin, tout |-> r.tokens,
     ok |-> r.ok, none |-> r.node = None, kids |-> Kids(r), err |-> r.err]

\* one finished call: the operation, the parser node (symbol and lexeme) or
\* rule it ran on, the tokens it was given, its result, and its inner calls
Event(op, sym, name, tin, r, steps) ==
    [op |-> op, sym |-> sym, name |-> name, tin |-> tin, tout |-> r.tokens,
     ok |-> r.ok, none |-> r.node = None, kids |-> Kids(r), err |-> r.err,
     steps |-> steps]

\* the result r of a call, with the call's event added to its log
Logged(op, sym, name, tin, r, steps) ==
    [r EXCEPT !.log = Append(@, Event(op, sym, name, tin, r, steps))]

\* split_by_or: the maximal runs of children that are not OR tokens
RECURSIVE split_by_or_from(_, _, _)
split_by_or_from(children, groups, current) ==
    IF children = <<>>
    THEN IF current = <<>> THEN groups ELSE Append(groups, current)
    ELSE IF Head(children).token.symbol = "OR"
         THEN split_by_or_from(Tail(children),
                               IF current = <<>> THEN groups ELSE Append(groups, current),
                               <<>>)
         ELSE split_by_or_from(Tail(children), groups, Append(current, Head(children)))

split_by_or(children) == split_by_or_from(children, <<>>, <<>>)

\* the result of a loop (x.r) with the event of the call that ran the loop
\* (x.steps are the loop's inner calls) added to its log
LoggedLoop(op, sym, name, tin, x) == Logged(op, sym, name, tin, x.r, x.steps)

RECURSIVE match_rule(_, _, _, _)
RECURSIVE match(_, _, _, _)
RECURSIVE match_terminal(_, _, _, _)
RECURSIVE match_nonterminal(_, _, _, _)
RECURSIVE match_optional(_, _, _, _)
RECURSIVE match_one_or_more(_, _, _, _)
RECURSIVE match_repeating(_, _, _, _)
RECURSIVE match_alternate(_, _, _, _)
RECURSIVE match_sequence(_, _, _, _, _)
RECURSIVE seq_loop(_, _, _, _, _, _, _, _, _, _)
RECURSIVE seq_next(_, _, _, _, _, _, _, _, _, _)
RECURSIVE atl_loop(_, _, _, _, _, _, _)
RECURSIVE atl_next(_, _, _, _, _, _, _, _)
RECURSIVE rep_loop(_, _, _, _, _, _, _)
RECURSIVE rep_next(_, _, _, _, _, _, _, _)
RECURSIVE alt_loop(_, _, _, _, _, _, _, _, _, _)
RECURSIVE alt_next(_, _, _, _, _, _, _, _, _, _)

\* a match_rule without the test for input left over
unconsumed_untested(i, tokens) == FALSE

\* match_rule's test for input left over: `if i == 0 and tokens`
unconsumed(i, tokens) == i = 0 /\ tokens # <<>>

\* match_rule once self.match has come back with r
match_rule_end(rule, tokens, i, parser_node, r) ==
    LET steps == <<Step(1, parser_node.token.symbol, parser_node.token.lexeme, tokens, r)>>
    IN  IF r.err # NoErr THEN Logged("match_rule", "RULE", rule, tokens, r, steps)
        ELSE IF unconsumed(i, r.tokens)
        THEN Logged("match_rule", "RULE", rule, tokens,
                    Raise(Exc("ValueError", "not all input consumed"), r.log), steps)
        ELSE Logged("match_rule", "RULE", rule, tokens, r, steps)

match_rule(self, rule, tokens, i) ==
    CASE i > MaxDepth ->
            Logged("match_rule", "RULE", rule, tokens,
                   Raise(Exc("RecursionError", "maximum recursion depth exceeded"), <<>>), <<>>)
      [] i <= MaxDepth /\ RulesGet(self, rule) = None ->
            Logged("match_rule", "RULE", rule, tokens,
                   Raise(Exc("SyntaxError", "No rule for"), <<>>), <<>>)
      [] OTHER ->
            match_rule_end(rule, tokens, i, RulesGet(self, rule),
                           match(self, RulesGet(self, rule), tokens, i + 1))

match(self, parser_node, tokens, i) ==
    CASE tokens = <<>> ->
            IF ~(optional(parser_node) \/ repeating(parser_node))
            THEN Logged("match", parser_node.token.symbol, parser_node.token.lexeme, tokens,
                        Raise(Exc("SyntaxError", "Unexpected end of tokens"), <<>>), <<>>)
            \* the report line reads tokens[0].lexeme
            ELSE Logged("match", parser_node.token.symbol, parser_node.token.lexeme, tokens,
                        Raise(Exc("IndexError", "list index out of range"), <<>>), <<>>)
      [] tokens # <<>> /\ is_terminal(parser_node.token) ->
            match_terminal(self, parser_node, tokens, i)
      [] OTHER -> match_nonterminal(self, parser_node, tokens, i)

\* an attaching that takes the first child of any sub-tree that has children
attach_first_child(self, node, child) ==
    IF child # None
    THEN IF self.collapse_tree /\ Len(child.children) >= 1
         THEN add(node, child.children[1])
         ELSE add(node, child)
    ELSE node

\* match_terminal's attaching of the CST a rule reference came back with,
\* with the collapsing of a sub-tree that has one child
attach(self, node, child) ==
    IF child # None
    THEN IF self.collapse_tree /\ Len(child.children) = 1
         THEN add(node, child.children[1])
         ELSE add(node, child)
    ELSE node

\* a match_terminal that hands on the ok of the rule referenced
rule_ok_handed_on(r) == r.ok

\* the ok match_terminal returns for a RULE token: the ok of match_rule is
\* bound and not read, the branch ends in `return True, node, tokens`
rule_ok(r) == TRUE

\* match_terminal on a RULE token once self.match_rule has come back with r
match_terminal_end(self, parser_node, tokens, r) ==
    LET sym == parser_node.token.symbol
        lexeme == parser_node.token.lexeme
        steps == <<Step(1, "RULE", lexeme, tokens, r)>>
    IN  IF r.err # NoErr THEN Logged("match_terminal", sym, lexeme, tokens, r, steps)
        ELSE Logged("match_terminal", sym, lexeme, tokens,
                    Ret(rule_ok(r), attach(self, CSTNode(lexeme), r.node), r.tokens, r.log), steps)

match_terminal(self, parser_node, tokens, i) ==
    LET sym == parser_node.token.symbol
        lexeme == parser_node.token.lexeme
        node == CSTNode(lexeme)
    IN  CASE tokens = <<>> ->
                Logged("match_terminal", sym, lexeme, tokens, Ret(FALSE, None, tokens, <<>>), <<>>)
          [] tokens # <<>> /\ sym = "RULE" ->
                match_terminal_end(self, parser_node, tokens,
                                   match_rule(self, lexeme, tokens, i + 1))
          [] OTHER ->
                IF \/ sym = "LITERAL" /\ lexeme = tokens[1].lexeme
                   \/ sym # "LITERAL" /\ lexeme = tokens[1].symbol
                THEN Logged("match_terminal", sym, lexeme, tokens,
                            Ret(TRUE, add(node, CSTNode(tokens[1])), Tail(tokens), <<>>), <<>>)
                ELSE Logged("match_terminal", sym, lexeme, tokens,
                            Ret(FALSE, None, tokens, <<>>), <<>>)

\* what match_nonterminal makes of the result r of the operation it
\* dispatched to: found (a sequence) or child.children (the others) go
\* under the node, and the node is handed back if it has children
nonterminal_result(node, r) ==
    LET children == Kids(r) IN
    IF children # <<>>
    THEN Ret(TRUE, [node EXCEPT !.children = children], r.tokens, r.log)
    ELSE Ret(FALSE, None, r.tokens, r.log)

\* match_nonterminal once the operation it dispatched to has come back with r
match_nonterminal_end(parser_node, tokens, node, r) ==
    LET sym == parser_node.token.symbol
        lexeme == parser_node.token.lexeme
        steps == <<Step(1, sym, lexeme, tokens, r)>>
    IN  IF r.err # NoErr THEN Logged("match_nonterminal", sym, lexeme, tokens, r, steps)
        ELSE IF oneormore(parser_node) /\ ~r.ok
        THEN Logged("match_nonterminal", sym, lexeme, tokens,
                    Raise(Exc("SyntaxError", "Did not find required seqence at least once"),
                          r.log),
                    steps)
        ELSE Logged("match_nonterminal", sym, lexeme, tokens, nonterminal_result(node, r), steps)

match_nonterminal(self, parser_node, tokens, i) ==
    LET sym == parser_node.token.symbol
        lexeme == parser_node.token.lexeme
        key == SplitDash(lexeme, groupcount)
        node == CSTNode(Token(key, lexeme, parser_node.token.start))
    IN  CASE ~InSymbolTable(self, key) ->
                Logged("match_nonterminal", sym, lexeme, tokens, Raise(Exc("KeyError", key), <<>>), <<>>)
          [] InSymbolTable(self, key) /\ tokens = <<>> ->
                Logged("match_nonterminal", sym, lexeme, tokens, Ret(FALSE, None, tokens, <<>>), <<>>)
          [] OTHER ->
                match_nonterminal_end(parser_node, tokens, node,
                    CASE alternate(parser_node) ->
                            match_alternate(self, parser_node, tokens, i + 1)
                      [] repeating(parser_node) ->
                            match_repeating(self, parser_node, tokens, i + 1)
                      [] optional(parser_node) ->
                            match_optional(self, parser_node, tokens, i + 1)
                      [] oneormore(parser_node) ->
                            match_one_or_more(self, parser_node, tokens, i + 1)
                      [] sym = "SEQUENCE" ->
                            match_sequence(self, lexeme, parser_node.children, tokens, i + 1)
                      [] OTHER ->
                            Raise(Exc("SyntaxError", "ran out of options in match_nonterminal"),
                                  <<>>))

\* match_optional once self.match_sequence has come back with r
match_optional_end(parser_node, tokens, r) ==
    LET token == parser_node.token
        node == CSTNode(token)
        steps == <<Step(1, "", token.lexeme, tokens, r)>>
    IN  IF r.err # NoErr THEN Logged("match_optional", token.symbol, token.lexeme, tokens, r, steps)
        ELSE IF r.ok
        THEN Logged("match_optional", token.symbol, token.lexeme, tokens,
                    Ret(TRUE, [node EXCEPT !.children = r.found], r.tokens, r.log), steps)
        ELSE Logged("match_optional", token.symbol, token.lexeme, tokens,
                    Ret(FALSE, None, r.tokens, r.log), steps)

match_optional(self, parser_node, tokens, i) ==
    match_optional_end(parser_node, tokens,
        match_sequence(self, parser_node.token.lexeme, parser_node.children, tokens, i + 1))

\* match_one_or_more once a self.match_sequence has come back with r: the
\* `if not ok: raise` after the call before the loop (steps is empty), the
\* `while ok:` test, and the returns after the loop
atl_next(self, parser_node, kids, tokens, i, log, steps, r) ==
    LET token == parser_node.token
        steps1 == Append(steps, Step(Len(steps) + 1, "", token.lexeme, tokens, r))
    IN  IF r.err # NoErr THEN [r |-> Raise(r.err, log \o r.log), steps |-> steps1]
        ELSE IF ~r.ok /\ steps = <<>>
        THEN [r |-> Raise(Exc("SyntaxError", "Missing group"), r.log), steps |-> steps1]
        ELSE IF r.ok /\ r.tokens = tokens
        THEN [r |-> Raise(Hang, log \o r.log), steps |-> steps1]
        ELSE IF r.ok
        THEN atl_loop(self, parser_node, kids \o r.found, r.tokens, i, log \o r.log, steps1)
        ELSE IF kids # <<>>
        THEN [r |-> Ret(TRUE, [CSTNode(token) EXCEPT !.children = kids], r.tokens, log \o r.log),
              steps |-> steps1]
        ELSE [r |-> Ret(FALSE, None, r.tokens, log \o r.log), steps |-> steps1]

\* match_one_or_more's calls of self.match_sequence: the one before the loop
\* and those in it; kids is what node.children holds so far
atl_loop(self, parser_node, kids, tokens, i, log, steps) ==
    atl_next(self, parser_node, kids, tokens, i, log, steps,
        match_sequence(self, parser_node.token.lexeme, parser_node.children, tokens, i + 1))

match_one_or_more(self, parser_node, tokens, i) ==
    LoggedLoop("match_one_or_more", parser_node.token.symbol, parser_node.token.lexeme, tokens,
               atl_loop(self, parser_node, <<>>, tokens, i, <<>>, <<>>))

\* match_repeating once a self.match_sequence has come back with r
rep_next(self, parser_node, kids, tokens, i, log, steps, r) ==
    LET token == parser_node.token
        steps1 == Append(steps, Step(Len(steps) + 1, "", token.lexeme, tokens, r))
    IN  IF r.err # NoErr THEN [r |-> Raise(r.err, log \o r.log), steps |-> steps1]
        ELSE IF r.ok
        THEN IF r.tokens = tokens
             THEN [r |-> Raise(Hang, log \o r.log), steps |-> steps1]
             ELSE rep_loop(self, parser_node, kids \o r.found, r.tokens, i, log \o r.log, steps1)
        ELSE IF kids # <<>>
        THEN [r |-> Ret(TRUE, [CSTNode(token) EXCEPT !.children = kids], r.tokens, log \o r.log),
              steps |-> steps1]
        ELSE [r |-> Ret(FALSE, None, r.tokens, log \o r.log), steps |-> steps1]

\* the `while keep_trying:` loop of match_repeating; kids is what
\* node.children holds so far
rep_loop(self, parser_node, kids, tokens, i, log, steps) ==
    rep_next(self, parser_node, kids, tokens, i, log, steps,
        match_sequence(self, parser_node.token.lexeme, parser_node.children, tokens, i + 1))

match_repeating(self, parser_node, tokens, i) ==
    LoggedLoop("match_repeating", parser_node.token.symbol, parser_node.token.lexeme, tokens,
               rep_loop(self, parser_node, <<>>, tokens, i, <<>>, <<>>))

\* a match_alternate that tries the alternatives last to first
alternates_reversed(parser_node) ==
    LET alts == split_by_or(parser_node.children)
    IN  [k \in 1..Len(alts) |-> alts[Len(alts) + 1 - k]]

\* the alternatives match_alternate tries, in the order it tries them
alternates_of(parser_node) == split_by_or(parser_node.children)

\* a match_alternate that goes on from where the attempt before stopped
alt_tokens_carried(original_tokens, remaining) == remaining

\* the tokens an alternative is tried on: `tokens = list(original_tokens)`;
\* remaining is what the attempt before it handed back
alt_tokens(original_tokens, remaining) == original_tokens

\* match_alternate once the self.match_sequence of the k-th alternative, tried
\* on tokens1, has come back with r (a ValueError it raised is passed over)
alt_next(self, parser_node, alternates, k, original_tokens, tokens1, remaining, i, x, r) ==
    LET steps1 == Append(x.steps, Step(k, "", parser_node.token.lexeme, tokens1, r))
        log1 == x.log \o r.log
    IN  IF r.err.type \notin {"", "ValueError"}
        THEN [r |-> Raise(r.err, log1), steps |-> steps1]
        ELSE IF r.err = NoErr /\ r.ok
        THEN [r |-> Ret(TRUE, [CSTNode(parser_node.token) EXCEPT !.children = r.found],
                        r.tokens, log1),
              steps |-> steps1]
        ELSE alt_loop(self, parser_node, alternates, k + 1, original_tokens, tokens1,
                      IF r.err = NoErr THEN r.tokens ELSE remaining, i, log1, steps1)

\* the `for alternate in alternates:` loop of match_alternate, at the k-th
\* alternative; tokens is the value of the variable tokens, remaining what
\* the last match_sequence handed back
alt_loop(self, parser_node, alternates, k, original_tokens, tokens, remaining, i, log, steps) ==
    IF k > Len(alternates)
    THEN [r |-> Ret(FALSE, None, tokens, log), steps |-> steps]
    ELSE alt_next(self, parser_node, alternates, k, original_tokens,
                  alt_tokens(original_tokens, remaining), remaining, i,
                  [log |-> log, steps |-> steps],
                  match_sequence(self, parser_node.token.lexeme, alternates[k],
                                 alt_tokens(original_tokens, remaining), i + 1))

match_alternate(self, parser_node, tokens, i) ==
    LoggedLoop("match_alternate", parser_node.token.symbol, parser_node.token.lexeme, tokens,
               IF tokens = <<>>
               THEN [r |-> Ret(FALSE, None, tokens, <<>>), steps |-> <<>>]
               ELSE alt_loop(self, parser_node, alternates_of(parser_node), 1, tokens, tokens,
                             tokens, i, <<>>, <<>>))

\* a match_sequence that puts what a child found in front of what it has
extend_in_front(found, children) == children \o found

\* found.extend(node.children)
extend(found, children) == found \o children

\* match_sequence once the self.match of the child `this` has come back
\* with r
seq_next(self, name, expected, tokens, found, orig_tokens, i, log, steps, r) ==
    LET this == Head(expected)
        steps1 == Append(steps, Step(Len(steps) + 1, this.token.symbol, this.token.lexeme,
                                     tokens, r))
    IN  IF r.err # NoErr THEN [r |-> Raise(r.err, log \o r.log), steps |-> steps1]
        ELSE IF r.node # None
        THEN seq_loop(self, name, Tail(expected), r.tokens, extend(found, r.node.children),
                      r.ok, orig_tokens, i, log \o r.log, steps1)
        ELSE [r |-> SeqRet(FALSE, found, r.tokens, log \o r.log), steps |-> steps1]

\* the `while expected:` loop of match_sequence and the returns after it;
\* ok is bound once a child has been matched (steps is not empty)
seq_loop(self, name, expected, tokens, found, ok, orig_tokens, i, log, steps) ==
    CASE expected = <<>> ->
            IF steps = <<>>
            THEN [r |-> Raise(Exc("UnboundLocalError", "ok referenced before assignment"), log),
                  steps |-> steps]
            ELSE [r |-> SeqRet(ok, found, tokens, log), steps |-> steps]
      [] expected # <<>> /\ tokens = <<>> ->
            \* no call is made: the step records the child that was expected
            LET this == Head(expected)
                steps0 == Append(steps, Step(Len(steps) + 1, this.token.symbol,
                                             this.token.lexeme, tokens,
                                             Ret(FALSE, None, tokens, <<>>)))
            IN  IF oneormore(this)
                THEN [r |-> Raise(Exc("SyntaxError", "Expected and found nothing"), log),
                      steps |-> steps0]
                ELSE [r |-> SeqRet(FALSE, <<>>, orig_tokens, log), steps |-> steps0]
      [] OTHER ->
            seq_next(self, name, expected, tokens, found, orig_tokens, i, log, steps,
                     match(self, Head(expected), tokens, i + 1))

match_sequence(self, name, originals, tokens, i) ==
    LoggedLoop("match_sequence", "", name, tokens,
               seq_loop(self, name, originals, tokens, <<>>, FALSE, tokens, i, <<>>, <<>>))

\* EBNFParser.parse
parse(self, tokens) ==
    IF self.start_rule = "None"
    THEN Raise(Exc("ValueError", "no start rule established"), <<>>)
    ELSE match_rule(self, self.start_rule, tokens, 0)

----------------------------------------------------------------------------
(* The program: the module is imported, parsers are constructed from      *)
(* grammar texts, collapse_tree is set, and token lists are parsed.        *)

\* no parse has been made, or its result has been taken
NoResult == [none |-> TRUE]

\* the token lists fed to a parser constructed from text g: every list of
\* at most MaxLen tokens over the text's alphabet, offsets increasing
Inputs(g) ==
    UNION {{[k \in 1..n |-> Token(w[k].symbol, w[k].lexeme, k)] :
                w \in [1..n -> Grammars[g].alphabet]} : n \in 0..MaxLen}

Init ==
    /\ groupcount = [key \in LowerKeys |-> 0]
    /\ parser = NoParser
    /\ grammar = 0
    /\ compiles = 0
    /\ compile_err = NoErr
    /\ phase = "start"
    /\ input = <<>>
    /\ result = NoResult

\* EBNFParser(text) for the g-th text; when the constructor raises, the
\* caller has no parser (phase "start") and `parser` keeps the object as
\* it was when the exception left __init__
Compile(g) ==
    /\ phase \in {"start", "ready"}
    /\ compiles < MaxCompiles
    /\ LET c == EBNFParser_init(Grammars[g].text, groupcount) IN
        /\ groupcount' = c.gc
        /\ parser' = c.self
        /\ compile_err' = c.err
        /\ phase' = IF c.err = NoErr THEN "ready" ELSE "start"
    /\ grammar' = g
    /\ compiles' = compiles + 1
    /\ UNCHANGED <<input, result>>

\* parser.collapse_tree = b
SetCollapse(b) ==
    /\ phase = "ready"
    /\ parser' = [parser EXCEPT !.collapse_tree = b]
    /\ UNCHANGED <<groupcount, grammar, compiles, compile_err, phase, input, result>>

\* the number of `expected.pop(0)` that the call e of match_sequence made:
\* one for each child whose match came back with a node
Popped(e) == Cardinality({k \in 1..Len(e.steps) : ~e.steps[k].none})

\* a match_sequence that pops from the list it was given
originals_shared(originals, popped) == SubSeq(originals, popped + 1, Len(originals))

\* match_sequence's `expected = list(originals)`: the pops are made on a
\* copy, the list given is left as it was
originals_left(originals, popped) == originals

\* parser node n as the call e of match_sequence leaves it: the call was
\* given the children list of the node of its name, unless that node is
\* ALTERNATING (match_alternate hands over lists made by split_by_or)
RECURSIVE NodeAfter(_, _)
NodeAfter(n, e) ==
    IF is_terminal(n.token) THEN n
    ELSE IF n.token.lexeme = e.name /\ ~alternate(n)
    THEN [n EXCEPT !.children = originals_left(n.children, Popped(e))]
    ELSE [n EXCEPT !.children = [k \in 1..Len(n.children) |-> NodeAfter(n.children[k], e)]]

\* the rule table as the calls of a parse, in the order of log, leave it
RECURSIVE RulesAfter(_, _)
RulesAfter(rules, log) ==
    IF log = <<>> THEN rules
    ELSE RulesAfter(IF Head(log).op = "match_sequence"
                    THEN [k \in 1..Len(rules) |->
                            [rules[k] EXCEPT !.node = NodeAfter(rules[k].node, Head(log))]]
                    ELSE rules,
                    Tail(log))

\* parser.parse(tokens)
Parse(tokens) ==
    /\ phase = "ready"
    /\ input' = tokens
    /\ result' = parse(parser, tokens)
    /\ parser' = [parser EXCEPT !.rules = RulesAfter(parser.rules, result'.log)]
    /\ phase' = "parsed"
    /\ UNCHANGED <<groupcount, grammar, compiles, compile_err>>

\* the caller takes what parse returned or raised
Return ==
    /\ phase = "parsed"
    /\ phase' = "ready"
    /\ input' = <<>>
    /\ result' = NoResult
    /\ UNCHANGED <<groupcount, parser, grammar, compiles, compile_err>>

Next ==
    \/ \E g \in 1..Len(Grammars) : Compile(g)
    \/ \E b \in BOOLEAN : SetCollapse(b)
    \/ phase = "ready" /\ \E tokens \in Inputs(grammar) : Parse(tokens)
    \/ Return

Spec == Init /\ [][Next]_vars

----------------------------------------------------------------------------
(* What the properties are stated over *)

\* the leaf tokens of a CST, left to right
RECURSIVE Leaves(_)
RECURSIVE LeavesOf(_)
LeavesOf(children) ==
    IF children = <<>> THEN <<>> ELSE Leaves(Head(children)) \o LeavesOf(Tail(children))

Leaves(node) == IF node.children = <<>> THEN <<node.token>> ELSE LeavesOf(node.children)

\* a parse has been made and its outcome not yet taken
Parsed == phase = "parsed"

\* parse came back with (True, node, tokens)
Succeeded == Parsed /\ result.err = NoErr /\ result.ok

\* the calls of the parse made, in the order in which they ended
Calls == IF Parsed THEN {result.log[k] : k \in 1..Len(result.log)} ELSE {}

\* the call of match_rule on the start rule: the last call to end
TopCall == result.log[Len(result.log)]

\* the kinds of error of the matcher, by what the code raises
UnconsumedInput == Exc("ValueError", "not all input consumed")

UnexpectedEndOfInput == Exc("SyntaxError", "Unexpected end of tokens")

RequiredGroupMissing ==
    {Exc("SyntaxError", "Missing group"),
     Exc("SyntaxError", "Did not find required seqence at least once"),
     Exc("SyntaxError", "Expected and found nothing")}

\* the lexemes of a token list
Lexemes(tokens) == [k \in 1..Len(tokens) |-> tokens[k].lexeme]

----------------------------------------------------------------------------
(* C1 *)

\* C1: token conservation: whenever parse returns successfully, the leaves
\* of the CST it returns, read in order, are the input tokens
C1_TokenConservation ==
    Succeeded => result.node # None /\ Leaves(result.node) = input

----------------------------------------------------------------------------
(* C2 *)

\* C2: at top level, whenever tokens remain after the start rule has been
\* matched, parse raises the unconsumed-input error instead of returning,
\* and so every parse that returns hands back no remaining tokens
C2_TopLevelUnconsumed ==
    (Parsed /\ result.log # <<>>) =>
        /\ TopCall.op = "match_rule"
        /\ (TopCall.steps # <<>> /\ TopCall.steps[1].err = NoErr
                /\ TopCall.steps[1].tout # <<>>)
            => result.err = UnconsumedInput
        /\ result.err = NoErr => result.tokens = <<>>

\* the start rule has matched, tokens remain, and parse has raised the
\* unconsumed-input error
C2_Witness ==
    /\ Parsed /\ result.log # <<>>
    /\ TopCall.steps # <<>> /\ TopCall.steps[1].err = NoErr
    /\ TopCall.steps[1].ok /\ TopCall.steps[1].tout # <<>>
    /\ result.err = UnconsumedInput

----------------------------------------------------------------------------
(* C3 *)

\* the calls of match_nonterminal on a SEQUENCE node (a rule body or a
\* `( ... )` group) that came back; their one inner call is match_sequence
SequenceCalls ==
    {e \in Calls : e.op = "match_nonterminal" /\ e.sym = "SEQUENCE"
                   /\ e.steps # <<>> /\ e.err = NoErr}

\* C3: a SEQUENCE node matches only if all its children match in order: when
\* a child misses (its match_sequence comes back not ok) the node is
\* reported as a non-match, with none of the children matched before the
\* miss attached
C3_SequenceAllOrNothing ==
    \A e \in SequenceCalls :
        ~e.steps[1].ok => ~e.ok /\ e.none /\ e.kids = <<>>

----------------------------------------------------------------------------
(* C4, C5 *)

\* the calls of match_sequence that came back not ok: the last of its
\* steps is the child it stopped at
StoppedSequences ==
    {e \in Calls : e.op = "match_sequence" /\ e.err = NoErr /\ ~e.ok /\ e.steps # <<>>}

\* the child a stopped sequence stopped at
StoppedAt(e) == e.steps[Len(e.steps)]

\* C4: an OPTIONAL child that does not match is not a failure of the
\* enclosing sequence: no sequence stops at an OPTIONAL child, and the rule
\* r := "a" ["b"] "c" accepts the tokens a c
C4_OptionalMissContinues ==
    /\ \A e \in StoppedSequences :
            ~(StoppedAt(e).sym = "OPTIONAL" /\ StoppedAt(e).tin # <<>>)
    /\ (Parsed /\ grammar = 1 /\ Lexemes(input) = <<"a", "c">>) => Succeeded

\* C5: a REPEATING child that matches its body zero times, because the next
\* token does not start the body or because no tokens remain, does not abort
\* the enclosing sequence: no sequence stops at a REPEATING child, and
\* expr := term {("+"|"-") term} accepts a single term
C5_RepeatZeroContinues ==
    /\ \A e \in StoppedSequences : StoppedAt(e).sym # "REPEATING"
    /\ (Parsed /\ grammar = 3 /\ Lexemes(input) = <<"2">>) => Succeeded

----------------------------------------------------------------------------
(* C6, C7 *)

\* the parser nodes of the parser: the rule bodies and all below them
RECURSIVE NodesUnder(_)
NodesUnder(node) ==
    {node} \cup UNION {NodesUnder(node.children[k]) : k \in 1..Len(node.children)}

ParserNodes == UNION {NodesUnder(parser.rules[k].node) : k \in 1..Len(parser.rules)}

\* the calls of match_alternate that were given tokens
AlternateCalls == {e \in Calls : e.op = "match_alternate" /\ e.tin # <<>>}

\* the ALTERNATING node a call of match_alternate ran on
AlternatingNode(e) == CHOOSE n \in ParserNodes : alternate(n) /\ n.token.lexeme = e.name

\* the children of the node, split on the OR markers: A1..An
Alternatives(e) == split_by_or(AlternatingNode(e).children)

\* the match of the k-th alternative, as a sequence, from the entry tokens of
\* the call
FromEntry(e, k) == match_sequence(parser, e.name, Alternatives(e)[k], e.tin, 1)

\* the alternatives whose whole sequence matches from the entry tokens
Matching(e) ==
    {k \in 1..Len(Alternatives(e)) : FromEntry(e, k).err = NoErr /\ FromEntry(e, k).ok}

\* the lowest-indexed of them
First(e) == CHOOSE k \in Matching(e) : \A j \in Matching(e) : k <= j

\* C6: alternation is first-match-wins: a call of match_alternate that comes
\* back hands back the match of the lowest-indexed alternative whose whole
\* sequence matches from the entry tokens (its children and the tokens it
\* left), having tried no alternative after it; it is a non-match only if
\* no alternative matches
C6_FirstMatchWins ==
    \A e \in AlternateCalls :
        e.err = NoErr =>
            IF Matching(e) = {}
            THEN ~e.ok /\ e.none
            ELSE /\ e.ok
                 /\ e.kids = FromEntry(e, First(e)).found
                 /\ e.tout = FromEntry(e, First(e)).tokens
                 /\ Len(e.steps) = First(e)

\* two alternatives match from the entry tokens with different results, and
\* the call has handed back the first, leaving the second untried
C6_Witness ==
    \E e \in AlternateCalls :
        /\ e.err = NoErr /\ e.ok
        /\ \E k \in Matching(e) :
              /\ k > First(e)
              /\ FromEntry(e, k).tokens # FromEntry(e, First(e)).tokens
        /\ Len(e.steps) = First(e)
        /\ e.tout = FromEntry(e, First(e)).tokens

\* C7: alternation backtracks to a snapshot: every alternative is tried on
\* exactly the tokens the call was entered with, and when all alternatives
\* fail the call hands back a non-match with those tokens
C7_AlternationSnapshot ==
    \A e \in AlternateCalls :
        /\ \A k \in 1..Len(e.steps) : e.steps[k].tin = e.tin
        /\ (e.err = NoErr /\ ~e.ok) => e.none /\ e.tout = e.tin

\* an alternative has failed after consuming tokens, and the next one has
\* been tried on the entry tokens again
C7_Witness ==
    \E e \in AlternateCalls :
        /\ Len(e.steps) >= 2
        /\ e.steps[1].err = NoErr /\ ~e.steps[1].ok
        /\ e.steps[1].tout # e.steps[1].tin
        /\ e.steps[2].tin = e.tin

----------------------------------------------------------------------------
(* C8 *)

\* the calls of match_one_or_more in which no pass of the body took a token
ZeroMatches ==
    {e \in Calls : /\ e.op = "match_one_or_more"
                   /\ \A k \in 1..Len(e.steps) :
                         e.steps[k].err = NoErr => e.steps[k].tout = e.steps[k].tin}

\* C8: an ATLEASTONCE node whose body matches zero times is a fatal error:
\* the matcher raises the required-group-missing syntax error, when tokens
\* are present but do not match the body and when the input is empty, as for
\* r := <"a"> on no tokens
C8_RequiredGroupMissing ==
    /\ \A e \in ZeroMatches : e.err \in RequiredGroupMissing
    /\ (Parsed /\ grammar = 16 /\ input = <<>>) => result.err \in RequiredGroupMissing

----------------------------------------------------------------------------
(* C9 *)

\* the start rule is a SEQUENCE node and its match_sequence has stopped, with
\* children matched, at a child it had no tokens left for
RanOutAt ==
    LET n == Len(result.log) IN
    IF /\ Parsed /\ n >= 3
       /\ result.log[n - 1].op = "match_nonterminal" /\ result.log[n - 1].sym = "SEQUENCE"
       /\ result.log[n - 2].op = "match_sequence" /\ Len(result.log[n - 2].steps) >= 2
       /\ StoppedAt(result.log[n - 2]).tin = <<>>
    THEN {StoppedAt(result.log[n - 2])}
    ELSE {}

\* the errors that say the input ended too early
EndOfInput == {UnexpectedEndOfInput, Exc("SyntaxError", "Expected and found nothing")}

\* C9: when the tokens run out while a sequence still expects a child that
\* is neither OPTIONAL nor REPEATING, parse fails with the
\* unexpected-end-of-input error, not with a non-match or another kind of
\* error
C9_UnexpectedEndPropagates ==
    \A s \in RanOutAt :
        s.sym \notin {"OPTIONAL", "REPEATING"} => result.err \in EndOfInput

----------------------------------------------------------------------------
(* C10 *)

\* the parse made, and the same parse with collapse_tree the other way
OtherWay == parse([parser EXCEPT !.collapse_tree = ~@], input)

WithCollapse == IF parser.collapse_tree THEN result ELSE OtherWay

WithoutCollapse == IF parser.collapse_tree THEN OtherWay ELSE result

\* a CST with every rule sub-tree below the root that has exactly one child
\* replaced by that child, innermost first
RECURSIVE CollapseAll(_)
CollapseAll(children) ==
    [k \in 1..Len(children) |->
        LET kids == CollapseAll(children[k].children)
        IN  IF Len(kids) = 1 THEN kids[1] ELSE [children[k] EXCEPT !.children = kids]]

CollapseTree(node) == [node EXCEPT !.children = CollapseAll(node.children)]

\* C10: tree collapsing preserves leaves: with collapse_tree True and False a
\* parse fails both ways or succeeds both ways, the two CSTs have the same
\* leaf tokens in order, and the collapsed CST is the other one with each
\* rule sub-tree that has exactly one child replaced by that child
C10_CollapsePreservesLeaves ==
    Parsed =>
        /\ WithCollapse.err = WithoutCollapse.err
        /\ WithCollapse.err = NoErr =>
            /\ WithCollapse.ok = WithoutCollapse.ok
            /\ WithCollapse.tokens = WithoutCollapse.tokens
            /\ (WithCollapse.node = None) = (WithoutCollapse.node = None)
            /\ WithCollapse.node # None =>
                /\ Leaves(WithCollapse.node) = Leaves(WithoutCollapse.node)
                /\ WithCollapse.node = CollapseTree(WithoutCollapse.node)

\* a parse has succeeded in which collapsing has replaced a rule sub-tree
\* with one child and kept one with several
C10_Witness ==
    /\ Succeeded /\ result.node # None
    /\ WithCollapse.node # WithoutCollapse.node
    /\ \E k \in 1..Len(WithCollapse.node.children) :
          Len(WithCollapse.node.children[k].children) >= 2

----------------------------------------------------------------------------
(* Suffix forms and bracket forms *)

\* the texts that write a group with a suffix, and for each the text that
\* writes the same group with brackets
SuffixForms == {17, 18, 19}

BracketForm(g) ==
    CASE g = 17 -> 2
      [] g = 18 -> 1
      [] g = 19 -> 7

\* the parser made from the bracket form of text g, with the collapse
\* setting of the parser in use
Bracketed(g) ==
    [EBNFParser_init(Grammars[BracketForm(g)].text, [key \in LowerKeys |-> 0]).self
        EXCEPT !.collapse_tree = parser.collapse_tree]

\* a parser node or CST without the names of its inner nodes, which carry
\* the group counter: kinds, leaf lexemes and structure
RECURSIVE Unnamed(_)
Unnamed(n) ==
    [symbol |-> n.token.symbol,
     lexeme |-> IF n.children = <<>> THEN n.token.lexeme ELSE "",
     children |-> [k \in 1..Len(n.children) |-> Unnamed(n.children[k])]]

\* what a caller sees of a parse: the exception, or (ok, node, tokens)
Outcome(r) ==
    [err |-> r.err, ok |-> r.ok, tokens |-> r.tokens,
     node |-> IF r.node = None THEN None ELSE Unnamed(r.node)]

\* C11: suffix rewriting equals the bracket form: a text that writes a group
\* as (X)*, (X)? or (X)+ compiles to the same kinds of node as the text that
\* writes it as {X}, [X] or <X>, and every parse with it has the outcome and
\* the CST that the bracket form gives on the same tokens
C11_SuffixEquivalence ==
    \A g \in SuffixForms :
        (grammar = g /\ phase \in {"ready", "parsed"}) =>
            /\ Unnamed(parser.rules[1].node) = Unnamed(Bracketed(g).rules[1].node)
            /\ Parsed => Outcome(result) = Outcome(parse(Bracketed(g), input))

----------------------------------------------------------------------------
(* Compile errors *)

\* a constructor call has been made and its outcome is in compile_err
Compiled == compiles > 0

\* the constructor raised: the caller has no parser
CompileFailed == Compiled /\ compile_err # NoErr /\ phase = "start"

\* the positions of body val where a closer of symbol in closers stands
\* right before a suffix token
SuffixedClosers(val, closers) ==
    {k \in 1..(Len(val) - 1) : val[k].symbol \in closers /\ val[k + 1].symbol \in SuffixSymbols}

\* the definitions of text g that are rules whose body closes a { } or [ ]
\* group and puts a suffix right after the closer
MixedRules(g) ==
    {k \in 1..Len(Grammars[g].text) :
        /\ islower(Grammars[g].text[k].key)
        /\ SuffixedClosers(Grammars[g].text[k].val, {"ENDREPEAT", "ENDOPTIONAL"}) # {}}

IllegalMix == Exc("SyntaxError", "Illegal mix of brackets and suffixes")

\* C12: mixing quantifying brackets with a suffix is rejected: when a rule of
\* the text closes a { } or [ ] group and follows the closer with *, ? or +,
\* the constructor raises the illegal-mix SyntaxError, the caller gets no
\* parser, and the rule table holds no node for that rule
C12_IllegalMixRejected ==
    \A g \in 1..Len(Grammars) :
        (Compiled /\ grammar = g /\ MixedRules(g) # {}) =>
            /\ CompileFailed
            /\ compile_err = IllegalMix
            /\ \A k \in MixedRules(g) : RulesGet(parser, Grammars[g].text[k].key) = None

\* the text with `{"a"}*` or the one with `["b"]+` has been handed to the
\* constructor, which raised the illegal-mix error
C12_Witness ==
    /\ Compiled /\ grammar \in {20, 21}
    /\ MixedRules(grammar) # {}
    /\ compile_err = IllegalMix

\* the definitions of text g whose lower-case name an earlier definition
\* of the text has
DuplicateRules(g) ==
    {k \in 1..Len(Grammars[g].text) :
        /\ islower(Grammars[g].text[k].key)
        /\ \E j \in 1..(k - 1) : Grammars[g].text[j].key = Grammars[g].text[k].key}

\* the definitions of text g whose upper-case name is a terminal already
\* registered with the tokenizer: by an earlier definition, or from the start
RedefinedTerminals(g) ==
    {k \in 1..Len(Grammars[g].text) :
        /\ isupper(Grammars[g].text[k].key)
        /\ \/ Grammars[g].text[k].key \in NewParser.tokenizer.symbols
           \/ \E j \in 1..(k - 1) : Grammars[g].text[j].key = Grammars[g].text[k].key}

DuplicateRule == Exc("SyntaxError", "rule already exists")

RedefinedTerminal == Exc("ValueError", "Redefining terminal symbol")

\* the definitions of text g that come first under their name
FirstDefinitions(g) ==
    {j \in 1..Len(Grammars[g].text) :
        \A i \in 1..(j - 1) : Grammars[g].text[i].key # Grammars[g].text[j].key}

\* the lexers the object under construction holds for terminal name
LexersFor(name) ==
    {k \in 1..Len(parser.tokenizer.lexers) : parser.tokenizer.lexers[k].name = name}

\* every entry the object under construction holds is the one made from the
\* first definition of its name: a rule's node is the node of that body, a
\* terminal has one lexer and it has that pattern
EntriesKept(g) ==
    \A j \in FirstDefinitions(g) :
        LET key == Grammars[g].text[j].key
            val == Grammars[g].text[j].val
        IN  /\ (islower(key) /\ RulesGet(parser, key) # None) =>
                /\ Cardinality({k \in 1..Len(parser.rules) : parser.rules[k].key = key}) = 1
                /\ Unnamed(RulesGet(parser, key))
                       = Unnamed(make_parser_node(key, val, "None", groupcount).node)
            /\ (isupper(key) /\ LexersFor(key) # {}) =>
                /\ key \in NewParser.tokenizer.symbols
                   \/ /\ Cardinality(LexersFor(key)) = 1
                      /\ \A k \in LexersFor(key) : parser.tokenizer.lexers[k].pattern = val
            /\ Len(parser.tokenizer.lexers) >= Len(NewParser.tokenizer.lexers)
            /\ \A k \in 1..Len(NewParser.tokenizer.lexers) :
                    parser.tokenizer.lexers[k] = NewParser.tokenizer.lexers[k]

\* C13: duplicate definitions are rejected: a text that defines a lower-case
\* rule name twice fails with the duplicate-rule error, a text that defines
\* an upper-case terminal name already registered fails with the
\* redefined-terminal error, and in both cases every rule-table and
\* tokenizer entry is still the one made before the failing definition
C13_DuplicatesRejected ==
    \A g \in 1..Len(Grammars) :
        (Compiled /\ grammar = g) =>
            /\ DuplicateRules(g) # {} =>
                    CompileFailed /\ compile_err = DuplicateRule /\ EntriesKept(g)
            /\ RedefinedTerminals(g) # {} =>
                    CompileFailed /\ compile_err = RedefinedTerminal /\ EntriesKept(g)

----------------------------------------------------------------------------
(* The start rule *)

\* a parser is in use: the constructor has returned one
InUse == phase \in {"ready", "parsed"}

\* the definitions of text g that are rules
RuleDefinitions(g) == {k \in 1..Len(Grammars[g].text) : islower(Grammars[g].text[k].key)}

\* the name of the first rule that text g defines
FirstRule(g) ==
    Grammars[g].text[CHOOSE k \in RuleDefinitions(g) : \A j \in RuleDefinitions(g) : k <= j].key

\* C14: the first rule defined is the start rule: as long as a parser is in
\* use, through every parse and every setting of collapse_tree, its
\* start_rule is the name of the first rule of the text it was made from,
\* which is the first key of its rule table, and every parse made is a call
\* of match_rule on that rule with the tokens given to parse
C14_FirstRuleIsStart ==
    InUse =>
        /\ parser.start_rule = FirstRule(grammar)
        /\ parser.start_rule = parser.rules[1].key
        /\ Parsed =>
            /\ result.log # <<>>
            /\ TopCall.op = "match_rule"
            /\ TopCall.name = parser.start_rule
            /\ TopCall.tin = input

\* a parse has been made with a parser of several rules whose text begins
\* with a terminal definition, after collapse_tree has been set
C14_Witness ==
    /\ Parsed /\ Len(parser.rules) >= 2
    /\ ~islower(Grammars[grammar].text[1].key)
    /\ ~parser.collapse_tree
    /\ input # <<>>

----------------------------------------------------------------------------
(* Empty input *)

\* the parser node of the start rule
StartNode == RulesGet(parser, parser.start_rule)

\* the start rule can match no tokens: its body is made of OPTIONAL and
\* REPEATING elements only
StartMatchesEmpty ==
    /\ StartNode.token.symbol = "SEQUENCE"
    /\ \A k \in 1..Len(StartNode.children) :
            optional(StartNode.children[k]) \/ repeating(StartNode.children[k])

\* C15: the empty input is accepted exactly by the grammars whose start rule
\* can match nothing: a parse of the empty token list returns with ok = True,
\* without raising, if the body of the start rule has only OPTIONAL and
\* REPEATING elements, and does not succeed otherwise
C15_EmptyInput ==
    (Parsed /\ input = <<>>) =>
        (StartMatchesEmpty <=> (result.err = NoErr /\ result.ok))

----------------------------------------------------------------------------
(* Termination *)

\* a parser node that can match without consuming a token, by its kind
Skippable(n) == optional(n) \/ repeating(n)

\* the rules a run of parser nodes can begin with: the references standing
\* where the first token of a match would be consumed
RECURSIVE LeftRefs(_)
RECURSIVE LeftRefsOf(_)
LeftRefsOf(children) ==
    IF children = <<>> THEN {}
    ELSE LeftRefs(Head(children))
            \cup IF Skippable(Head(children)) THEN LeftRefsOf(Tail(children)) ELSE {}

LeftRefs(n) ==
    IF n.token.symbol = "RULE" THEN {n.token.lexeme}
    ELSE IF n.children = <<>> THEN {}
    ELSE IF alternate(n)
    THEN UNION {LeftRefsOf(split_by_or(n.children)[k]) :
                    k \in 1..Len(split_by_or(n.children))}
    ELSE LeftRefsOf(n.children)

\* the rules reached from the rules of S by going to a rule some body can
\* begin with, in at most n steps
RECURSIVE LeftReach(_, _)
LeftReach(S, n) ==
    IF n = 0 THEN S
    ELSE LeftReach(S \cup UNION {IF RulesGet(parser, r) = None THEN {}
                                 ELSE LeftRefs(RulesGet(parser, r)) : r \in S},
                   n - 1)

\* some rule of the parser in use can begin with itself
LeftRecursive ==
    \E k \in 1..Len(parser.rules) :
        parser.rules[k].key \in LeftReach(LeftRefs(parser.rules[k].node), Len(parser.rules))

\* C16: parsing terminates: with a grammar that has no left recursion, every
\* parse of a token list returns or raises; no loop of match_repeating or
\* match_one_or_more goes on for ever
C16_ParseTerminates ==
    (Parsed /\ ~LeftRecursive) => result.err # Hang

----------------------------------------------------------------------------
(* Token position after a miss *)

\* the calls of match_sequence that came back with ok = False
MissedSequences == {e \in Calls : e.op = "match_sequence" /\ e.err = NoErr /\ ~e.ok}

\* C17: match_sequence restores the token position on failure: whenever it
\* returns ok = False, after a child missed or after the tokens ran out, the
\* token list it returns is the list it was called with
C17_SequenceRestoresTokens ==
    \A e \in MissedSequences : e.tout = e.tin

\* the calls of match_repeating and match_one_or_more that came back; their
\* inner calls are the iterations, each a call of match_sequence on the body
RepeatCalls ==
    {e \in Calls : e.op \in {"match_repeating", "match_one_or_more"}
                   /\ e.err = NoErr /\ e.steps # <<>>}

\* the iteration a repeat ended with
LastIteration(e) == e.steps[Len(e.steps)]

\* C18: a failed iteration of a repeat is rolled back: when the loop of
\* match_repeating or match_one_or_more ends with an iteration of the body
\* that failed, the tokens the call hands back are the tokens that iteration
\* started from, whatever the iteration consumed before it failed
C18_IterationRollback ==
    \A e \in RepeatCalls :
        ~LastIteration(e).ok => e.tout = LastIteration(e).tin

----------------------------------------------------------------------------
(* Alternation at every level *)

\* the parser nodes that have an OR token among their own children
NodesWithOr ==
    {n \in ParserNodes : \E k \in 1..Len(n.children) : n.children[k].token.symbol = "OR"}

\* the token lists that as := "a" {("b"|"c")} describes: an a, then b's and
\* c's in any number and order
AsInput ==
    /\ input # <<>> /\ input[1].lexeme = "a"
    /\ \A k \in 2..Len(input) : input[k].lexeme \in {"b", "c"}

\* C19: an OR token makes its node ALTERNATING: every parser node, a rule
\* root or a nested group, that has an OR token at its own level has the kind
\* ALTERNATING, the OR tokens staying among its children as separators; and
\* as := "a" {("b"|"c")} accepts an a followed by b's and c's, with those
\* tokens as the leaves
C19_OrMakesAlternating ==
    InUse =>
        /\ \A n \in NodesWithOr : alternate(n)
        /\ (Parsed /\ grammar = 6 /\ AsInput) =>
                Succeeded /\ Leaves(result.node) = input

----------------------------------------------------------------------------
(* Mismatched closers *)

\* reading the body left to right with the closers of the open groups in
\* `open`, innermost first: a closer is met that is not the one the innermost
\* open group expects, or is met with no group open
RECURSIVE MeetsMismatch(_, _)
MeetsMismatch(val, open) ==
    IF val = <<>> THEN FALSE
    ELSE IF Head(val).symbol \in StartSymbols
    THEN MeetsMismatch(Tail(val), <<groupings(Head(val).symbol)>> \o open)
    ELSE IF Head(val).symbol \in EndSymbols
    THEN IF open = <<>> \/ Head(open) # Head(val).symbol
         THEN TRUE
         ELSE MeetsMismatch(Tail(val), Tail(open))
    ELSE MeetsMismatch(Tail(val), open)

\* the rules of text g whose body has a mismatched closer
MismatchedRules(g) ==
    {k \in RuleDefinitions(g) : MeetsMismatch(Grammars[g].text[k].val, <<>>)}

MismatchedCloser == Exc("SyntaxError", "Expected closer")

\* C20: a mismatched closer is a grammar syntax error: when the body of a
\* rule has a closer that is not the end token of the innermost open group,
\* or a closer where no group is open, the constructor fails with the
\* SyntaxError that names the closer expected and the closer met
C20_MismatchedCloserRejected ==
    \A g \in 1..Len(Grammars) :
        (Compiled /\ grammar = g /\ MismatchedRules(g) # {}) =>
            CompileFailed /\ compile_err = MismatchedCloser

----------------------------------------------------------------------------
(* One-or-more brackets with a suffix *)

\* the rules of text g whose body closes a < > group and puts a suffix right
\* after the closer
SuffixedAtLeastOnce(g) ==
    {k \in RuleDefinitions(g) : SuffixedClosers(Grammars[g].text[k].val, {"ENDATL"}) # {}}

\* C21: every bracket that quantifies refuses a suffix: when a rule of the
\* text closes a < > group and follows the closer with *, ? or +, the
\* constructor raises the illegal-mix SyntaxError and the caller gets no
\* parser, as for { } and [ ] followed by a suffix
C21_AtLeastOnceSuffixRejected ==
    \A g \in 1..Len(Grammars) :
        (Compiled /\ grammar = g /\ SuffixedAtLeastOnce(g) # {}) =>
            CompileFailed /\ compile_err = IllegalMix

----------------------------------------------------------------------------
(* Group names *)

\* the names of the groups under a parser node, in the order in which the
\* groups were opened
RECURSIVE GroupNames(_)
RECURSIVE GroupNamesOf(_)
GroupNamesOf(children) ==
    IF children = <<>> THEN <<>>
    ELSE GroupNames(Head(children)) \o GroupNamesOf(Tail(children))

GroupNames(n) ==
    IF is_terminal(n.token) THEN <<>>
    ELSE <<n.token.lexeme>> \o GroupNamesOf(n.children)

\* the parser that the first constructor call of a process makes from text g
FirstCompile(g) == EBNFParser_init(Grammars[g].text, [key \in LowerKeys |-> 0]).self

\* C22: group names are scoped to the grammar being compiled: in every
\* parser the groups of each rule are named <rule>-1, <rule>-2, ... in the
\* order in which they were opened, and a text compiled again in the same
\* process gives the rule table, names included, that its first compile gives
C22_GroupNamesScoped ==
    InUse =>
        /\ \A k \in 1..Len(parser.rules) :
              GroupNamesOf(parser.rules[k].node.children)
                  = [n \in 1..Len(GroupNamesOf(parser.rules[k].node.children))
                        |-> GroupName(parser.rules[k].key, n)]
        /\ parser.rules = FirstCompile(grammar).rules

----------------------------------------------------------------------------
(* The grammar under parsing *)

\* the compiled grammar of a parser: what the constructor built
CompiledGrammar(self) ==
    [rules |-> self.rules, symbol_table |-> self.symbol_table,
     start_rule |-> self.start_rule, tokenizer |-> self.tokenizer]

\* C23: parsing does not change the compiled grammar: every step that is not
\* a construction, that is every parse, returning or raising, every taking
\* of its outcome and every setting of collapse_tree, leaves the rule table
\* with the kind and the children of every parser node, the symbol table,
\* the start rule and the tokenizer as they were
C23_ParseKeepsGrammar ==
    [][compiles' = compiles => CompiledGrammar(parser') = CompiledGrammar(parser)]_vars

\* the calls of match_sequence that were given the children list of a
\* parser node and popped from their `expected`
PoppingSequences ==
    {e \in Calls : /\ e.op = "match_sequence" /\ Popped(e) >= 1
                   /\ \E n \in ParserNodes :
                        ~is_terminal(n.token) /\ n.token.lexeme = e.name /\ ~alternate(n)}

\* a parse has raised after a call of match_sequence that was given the
\* children list of a parser node had popped from its `expected`
C23_Witness ==
    /\ Parsed /\ result.err # NoErr
    /\ PoppingSequences # {}

----------------------------------------------------------------------------
(* Left-to-right consumption *)

\* s is the end of t
IsSuffix(s, t) == Len(s) <= Len(t) /\ s = SubSeq(t, Len(t) - Len(s) + 1, Len(t))

\* s is t with some of its members left out
RECURSIVE IsSubsequence(_, _)
IsSubsequence(s, t) ==
    IF s = <<>> THEN TRUE
    ELSE IF t = <<>> THEN FALSE
    ELSE IF Head(s) = Head(t) THEN IsSubsequence(Tail(s), Tail(t))
    ELSE IsSubsequence(s, Tail(t))

\* the calls of match operations that came back
Returned == {e \in Calls : e.err = NoErr}

\* C24: the matcher consumes left to right: every match operation that comes
\* back returns a token list that is the end of the list it was given, and
\* the leaves of what it found, read in order, are tokens of the list it was
\* given in the order of that list, none twice
C24_LeftToRight ==
    \A e \in Returned :
        /\ IsSuffix(e.tout, e.tin)
        /\ IsSubsequence(LeavesOf(e.kids), e.tin)

\* a parse has succeeded with several leaves in which an alternation went on
\* to a later alternative after an earlier one failed, and a repeat matched
C24_Witness ==
    /\ Succeeded /\ Len(Leaves(result.node)) >= 2
    /\ \E e \in Returned : e.op = "match_alternate" /\ e.ok /\ Len(e.steps) >= 2
    /\ \E e \in Returned : e.op = "match_repeating" /\ e.ok

----------------------------------------------------------------------------
(* What parse hands back *)

\* parse came back without raising
Returns == Parsed /\ result.err = NoErr

\* C25: every normal return of parse is a full success: when parse comes
\* back without raising, ok is True, the CST node is there and has at least
\* one child, and no token remains; a start rule that does not match ends in
\* a raised error, never in a returned (False, None, tokens)
C25_ReturnIsSuccess ==
    Returns =>
        /\ result.ok
        /\ result.node # None
        /\ Len(result.node.children) >= 1
        /\ result.tokens = <<>>

\* a parse of several tokens has come back without raising
C25_Witness == Returns /\ Len(input) >= 2

----------------------------------------------------------------------------
(* Rule references *)

\* the calls of match_terminal on a RULE token, made with tokens, that came
\* back; their one inner call is the match_rule of the rule referenced
RuleReferences ==
    {e \in Returned : e.op = "match_terminal" /\ e.sym = "RULE" /\ e.tin # <<>>}

\* the references whose rule failed
FailedReferences == {e \in RuleReferences : ~e.steps[1].ok}

\* C26: a RULE reference never reports a non-match while tokens remain:
\* match_terminal on a RULE token returns ok = True with a node; when the
\* rule referenced failed, the node has no children and the tokens returned
\* are those the failed rule handed back; and no sequence stops at a RULE
\* reference unless its tokens had run out
C26_RuleReferenceAlwaysOk ==
    /\ \A e \in RuleReferences : e.ok /\ ~e.none
    /\ \A e \in FailedReferences : e.kids = <<>> /\ e.tout = e.steps[1].tout
    /\ \A e \in StoppedSequences : StoppedAt(e).sym = "RULE" => StoppedAt(e).tin = <<>>

\* a parse has succeeded in which a rule referenced failed after consuming
\* a token and the enclosing sequence went on to its next child
C26_Witness ==
    /\ Succeeded
    /\ \E e \in FailedReferences : e.tout # e.tin
    /\ \E s \in Returned :
          /\ s.op = "match_sequence" /\ Len(s.steps) >= 2
          /\ s.steps[1].sym = "RULE" /\ ~s.steps[1].none /\ s.steps[1].kids = <<>>

----------------------------------------------------------------------------
(* Unterminated groups *)

\* reading the body left to right: the closers that the groups still open at
\* its end wait for, innermost first (`open` those of the groups open so far)
RECURSIVE OpenAtEnd(_, _)
OpenAtEnd(val, open) ==
    IF val = <<>> THEN open
    ELSE IF Head(val).symbol \in StartSymbols
    THEN OpenAtEnd(Tail(val), <<groupings(Head(val).symbol)>> \o open)
    ELSE IF Head(val).symbol \in EndSymbols /\ open # <<>>
    THEN OpenAtEnd(Tail(val), Tail(open))
    ELSE OpenAtEnd(Tail(val), open)

\* the rules of text g whose body ends while a group is open, every closer
\* before that being the one expected
UnterminatedRules(g) ==
    {k \in RuleDefinitions(g) :
        /\ ~MeetsMismatch(Grammars[g].text[k].val, <<>>)
        /\ OpenAtEnd(Grammars[g].text[k].val, <<>>) # <<>>}

\* of these, the rules whose last meta-token opens a group
OpenedLast(g) ==
    {k \in UnterminatedRules(g) :
        Grammars[g].text[k].val[Len(Grammars[g].text[k].val)].symbol \in StartSymbols}

CloserToken(symbol) == CHOOSE t \in {EG, ER, EO, EA} : t.symbol = symbol

\* the body with the closers of its open groups written at its end
Closed(val) ==
    LET open == OpenAtEnd(val, <<>>)
    IN  val \o [i \in 1..Len(open) |-> CloserToken(open[i])]

\* text g with every unterminated rule closed
ClosedText(g) ==
    [k \in 1..Len(Grammars[g].text) |->
        IF k \in UnterminatedRules(g)
        THEN Def(Grammars[g].text[k].key, Closed(Grammars[g].text[k].val))
        ELSE Grammars[g].text[k]]

\* the number of groups that the rules of text g named key open
OpenersOf(g, key) ==
    Cardinality(UNION {{<<k, i>> : i \in {j \in 1..Len(Grammars[g].text[k].val) :
                                            Grammars[g].text[k].val[j].symbol \in StartSymbols}} :
                       k \in {d \in RuleDefinitions(g) : Grammars[g].text[d].key = key}})

\* what the constructor gives for the closed form of text g, called with the
\* group counts that the constructor call of the parser in use found
ClosedCompile(g) ==
    EBNFParser_init(ClosedText(g),
                    [key \in LowerKeys |-> groupcount[key] - OpenersOf(g, key)])

\* a parser node without the group that its last meta-token opened and
\* closed: the childless group at the end of its last branch
RECURSIVE WithoutLastGroup(_)
WithoutLastGroup(n) ==
    LET last == n.children[Len(n.children)]
    IN  IF last.children = <<>>
        THEN [n EXCEPT !.children = SubSeq(@, 1, Len(@) - 1)]
        ELSE [n EXCEPT !.children[Len(n.children)] = WithoutLastGroup(last)]

====
